---- MODULE Spec2Model ----
(***************************************************************************)
(* Inventory backend: src/index.js (express handlers, the authenticate     *)
(* middleware) over the PostgreSQL schema of src/unnamed/part_000 (tables   *)
(* users, vendors, products, their sequences and constraints).              *)
(*                                                                          *)
(* Request values are JSON values: undefined (a field or header that is     *)
(* absent), strings and numbers.  Strings and numbers range over values the *)
(* column they are written to accepts (varchar widths, integer range);      *)
(* a price is counted in hundredths, the scale of numeric(10,2).            *)
(***************************************************************************)
EXTENDS Integers, Sequences, FiniteSets, TLC

VARIABLES
    users,          \* table public.users: rows [id, username, password]
    users_id_seq,   \* last value drawn from public.users_id_seq
    vendors,        \* table public.vendors: rows [id, name]
    vendors_id_seq, \* last value drawn from public.vendors_id_seq
    products,       \* table public.products
    products_id_seq,\* last value drawn from public.products_id_seq
    inflight,       \* per client: the handler suspended at an await, or Idle
    issued,         \* tokens that login responses have handed to clients
    now,            \* the clock jwt.sign and jwt.verify read
    last            \* the step just taken: request, response, req.user

vars == <<users, users_id_seq, vendors, vendors_id_seq, products,
          products_id_seq, inflight, issued, now, last>>

tables == <<users, vendors, products>>

\* The tables and their sequences.
store == <<users, users_id_seq, vendors, vendors_id_seq, products,
           products_id_seq>>

----------------------------------------------------------------------------
\* Bounds of the model.

\* users_id_seq, vendors_id_seq and products_id_seq are not drawn past these.
MaxUserSeq == 3
MaxVendorSeq == 2
MaxProductSeq == 2
\* The clock stops here.
MaxTime == 1
\* Spec, which runs every operation together, stops at this much work.
MaxWork == 5

Clients == {"c1", "c2"}

----------------------------------------------------------------------------
\* JSON values, and the strings that carry a token.

Undef == [k |-> "undefined"]
Null == [k |-> "null"]
Str(s) == [k |-> "str", s |-> s]
Num(n) == [k |-> "num", n |-> n]

\* The compact serialization of a token: its payload and the key that signed it.
Jws(payload, key) == [k |-> "jws", payload |-> payload, key |-> key]

\* JavaScript truthiness, as `!x` and `if (!token)` read it.
Truthy(v) ==
    CASE v.k = "str" -> v.s # ""
      [] v.k = "num" -> v.n # 0
      [] v.k = "jws" -> TRUE
      [] OTHER -> FALSE

\* What node-postgres sends for a parameter: undefined goes as NULL.
SqlParam(v) == IF v = Undef THEN Null ELSE v

----------------------------------------------------------------------------
\* bcrypt.

Salts == {"s1"}

\* bcrypt.hash(data, 10): the salt is drawn per call and kept in the output;
\* the digest is one-way, so it is kept as a term over the plaintext.
BcryptHash(data, salt) == [cost |-> 10, salt |-> salt, digest |-> data]

\* A compare that re-hashes data under a salt of its own.
BcryptCompareFreshSalt(data, hash) ==
    IF data.k # "str" THEN "throw"
    ELSE IF BcryptHash(data.s, "s1") = hash THEN "match" ELSE "nomatch"

\* A compare that looks at the salt and the cost alone.
BcryptCompareNoDigest(data, hash) ==
    IF data.k # "str" THEN "throw"
    ELSE IF BcryptHash(data.s, hash.salt).salt = hash.salt
    THEN "match" ELSE "nomatch"

\* bcrypt.compare(data, hash): re-hashes data under the hash's own salt.
\* It rejects (throws) when data is not a string.
BcryptCompare(data, hash) ==
    IF data.k # "str" THEN "throw"
    ELSE IF BcryptHash(data.s, hash.salt) = hash THEN "match" ELSE "nomatch"

----------------------------------------------------------------------------
\* jsonwebtoken.

\* process.env.JWT_SECRET
JWT_SECRET == "JWT_SECRET"

\* A sign that sets expiresIn: exp is one tick after iat.
JwtSignExpiring(payload, secret, t) ==
    Jws([id |-> payload.id, username |-> payload.username,
         iat |-> t, exp |-> {t + 1}], secret)

\* jwt.sign(payload, secret) with no options: iat is added, exp is not.
JwtSign(payload, secret, t) ==
    Jws([id |-> payload.id, username |-> payload.username,
         iat |-> t, exp |-> {}], secret)

\* jwt.verify(token, secret) returns the payload; it throws on a string that
\* is no token, on a signature made with another key, and past exp when the
\* payload has one.
JwtVerifies(token, secret, t) ==
    /\ token.k = "jws"
    /\ token.key = secret
    /\ \A e \in token.payload.exp : t < e

----------------------------------------------------------------------------
\* Requests and responses.

\* A step's record: the request, then what the handler answered.  status 0:
\* the handler is suspended at an await and has not answered.
Request(op, header, body, id) ==
    [op |-> op, header |-> header, body |-> body, id |-> id,
     status |-> 0, msg |-> "", token |-> Undef, user |-> Undef,
     ran |-> FALSE, rows |-> {}, began |-> 0]

\* res.status(status).json({error | message: msg})
Reply(req, status, msg) == [req EXCEPT !.status = status, !.msg = msg]

Idle == [op |-> "idle"]

----------------------------------------------------------------------------
\* The store: constraints of the schema and the statements the handlers run.

\* The rows COPY loads into users; the plaintext behind the stored hash is not
\* in the dump and is named AdminPassword here.
AdminPassword == "adminpw"
SeedUsers == {[id |-> 1, username |-> "admin",
               password |-> BcryptHash(AdminPassword, "cVxu")]}

\* The users table without its unique constraint.
UsersNoUsernameKey(rows, username) == TRUE

\* CONSTRAINT users_username_key UNIQUE (username), checked for a new row.
UsersUsernameKey(rows, username) == \A r \in rows : r.username # username

\* INSERT INTO users (username, password) VALUES ($1, $2).  The id default
\* draws from users_id_seq before the constraint is checked, so a rejected
\* insert still consumes the value.
InsertUser(rows, seq, username, password) ==
    LET id == seq + 1 IN
    IF UsersUsernameKey(rows, username)
    THEN [ok |-> TRUE, seq |-> id,
          rows |-> rows \cup {[id |-> id, username |-> username,
                                password |-> password]}]
    ELSE [ok |-> FALSE, seq |-> id, rows |-> rows]

\* SELECT * FROM users WHERE username = $1
SelectUserByName(rows, param) ==
    {r \in rows : param.k = "str" /\ r.username = param.s}

----------------------------------------------------------------------------
\* POST /api/register

\* Up to the first await: the field check, then bcrypt.hash is started.
RegisterStart(c, body, salt) ==
    /\ inflight[c] = Idle
    /\ LET req == Request("register", Undef, body, Undef) IN
       IF ~Truthy(body.username) \/ ~Truthy(body.password)
       THEN /\ last' = Reply(req, 400, "Missing fields")
            /\ UNCHANGED inflight
       ELSE /\ inflight' = [inflight EXCEPT ![c] =
                   [op |-> "register", body |-> body, began |-> users_id_seq,
                    hashedPassword |-> BcryptHash(body.password.s, salt)]]
            /\ last' = req
    /\ UNCHANGED <<users, users_id_seq, vendors, vendors_id_seq, products,
                   products_id_seq, issued, now>>

\* The INSERT runs in the store and the handler answers.
RegisterInsert(c) ==
    /\ inflight[c].op = "register"
    /\ users_id_seq < MaxUserSeq
    /\ LET h == inflight[c]
           req == [Request("register", Undef, h.body, Undef)
                      EXCEPT !.began = h.began]
           q == InsertUser(users, users_id_seq, h.body.username.s,
                           h.hashedPassword)
       IN /\ users' = q.rows
          /\ users_id_seq' = q.seq
          /\ last' = IF q.ok
                     THEN Reply(req, 200, "User registered successfully")
                     ELSE Reply(req, 500, "Registration failed")
    /\ inflight' = [inflight EXCEPT ![c] = Idle]
    /\ UNCHANGED <<vendors, vendors_id_seq, products, products_id_seq,
                   issued, now>>

----------------------------------------------------------------------------
\* POST /api/login

\* The handler reads the store once (the SELECT) and touches nothing shared
\* after it, so the whole handler is one step, taken when the SELECT runs.
Login(body) ==
    /\ LET req == Request("login", Undef, body, Undef)
           rows == SelectUserByName(users, SqlParam(body.username))
       IN IF rows = {}
          THEN /\ last' = Reply(req, 400, "User not found")
               /\ UNCHANGED issued
          ELSE LET user == CHOOSE r \in rows : \A o \in rows : r.id <= o.id
                   isMatch == BcryptCompare(body.password, user.password)
                   token == JwtSign([id |-> user.id, username |-> user.username],
                                    JWT_SECRET, now)
               IN CASE isMatch = "throw" ->
                         /\ last' = Reply(req, 500, "Login failed")
                         /\ UNCHANGED issued
                    [] isMatch = "nomatch" ->
                         /\ last' = Reply(req, 400, "Invalid password")
                         /\ UNCHANGED issued
                    [] OTHER ->
                         /\ last' = [Reply(req, 200, "") EXCEPT !.token = token]
                         /\ issued' = issued \cup {token}
    /\ UNCHANGED <<users, users_id_seq, vendors, vendors_id_seq, products,
                   products_id_seq, inflight, now>>

----------------------------------------------------------------------------
\* The authenticate middleware.

\* The routes registered with authenticate before their handler.
ProtectedOps ==
    {"POST /api/vendors", "POST /api/products", "PUT /api/products/:id",
     "DELETE /api/products/:id"}

\* An Authorization header value, as the segments split(" ") cuts it into.
Hdr(segs) == [k |-> "hdr", segs |-> segs]

\* req.headers.authorization?.split(" ")[1]
BearerToken(header) ==
    IF header = Undef THEN Undef
    ELSE IF Len(header.segs) >= 2 THEN header.segs[2] ELSE Undef

\* A middleware that lets a request with no token through to the handler.
AuthenticateOptional(header, t) ==
    LET token == BearerToken(header) IN
    IF ~Truthy(token)
    THEN [next |-> TRUE, status |-> 0, error |-> "", user |-> Undef]
    ELSE IF JwtVerifies(token, JWT_SECRET, t)
    THEN [next |-> TRUE, status |-> 0, error |-> "", user |-> token.payload]
    ELSE [next |-> FALSE, status |-> 401, error |-> "Invalid token",
          user |-> Undef]

\* next |-> TRUE: next() was called with req.user set; otherwise the answer.
Authenticate(header, t) ==
    LET token == BearerToken(header) IN
    IF ~Truthy(token)
    THEN [next |-> FALSE, status |-> 401, error |-> "No token provided",
          user |-> Undef]
    ELSE IF JwtVerifies(token, JWT_SECRET, t)
    THEN [next |-> TRUE, status |-> 0, error |-> "", user |-> token.payload]
    ELSE [next |-> FALSE, status |-> 401, error |-> "Invalid token",
          user |-> Undef]

\* The request as the route's handler receives it, or the middleware's answer.
Guarded(req, auth) ==
    IF auth.next THEN [req EXCEPT !.user = auth.user, !.ran = TRUE]
    ELSE Reply(req, auth.status, auth.error)

----------------------------------------------------------------------------
\* Vendors.

\* INSERT INTO vendors (name) VALUES ($1)
InsertVendor(rows, seq, name) ==
    LET id == seq + 1 IN
    IF name = Null
    THEN [ok |-> FALSE, seq |-> id, rows |-> rows]
    ELSE [ok |-> TRUE, seq |-> id,
          rows |-> rows \cup {[id |-> id, name |-> name.s]}]

\* GET /api/vendors
GetVendors ==
    /\ last' = [Reply(Request("GET /api/vendors", Undef, Undef, Undef), 200, "")
                   EXCEPT !.rows = vendors, !.ran = TRUE]
    /\ UNCHANGED <<users, users_id_seq, vendors, vendors_id_seq, products,
                   products_id_seq, inflight, issued, now>>

\* POST /api/vendors
PostVendor(header, body) ==
    LET req == Guarded(Request("POST /api/vendors", header, body, Undef),
                       Authenticate(header, now))
    IN
    /\ IF ~req.ran
       THEN /\ last' = req
            /\ UNCHANGED <<vendors, vendors_id_seq>>
       ELSE IF ~Truthy(body.name)
       THEN /\ last' = Reply(req, 400, "Vendor name required")
            /\ UNCHANGED <<vendors, vendors_id_seq>>
       ELSE /\ vendors_id_seq < MaxVendorSeq
            /\ LET q == InsertVendor(vendors, vendors_id_seq, SqlParam(body.name))
               IN /\ vendors' = q.rows
                  /\ vendors_id_seq' = q.seq
                  /\ last' = IF q.ok THEN Reply(req, 200, "Vendor added")
                             ELSE Reply(req, 500, "Error adding vendor")
    /\ UNCHANGED <<users, users_id_seq, products, products_id_seq, inflight,
                   issued, now>>

----------------------------------------------------------------------------
\* Products.

RequiredColumns == {"vendor_id", "name", "quantity", "price", "contains", "box"}

\* The NOT NULL columns of products that a statement's parameters fill.
ProductsNotNull(p) == \A f \in RequiredColumns : p[f] # Null

\* The products table without its foreign key.
ProductsNoVendorIdFkey(vendorRows, vendor_id) == TRUE

\* CONSTRAINT products_vendor_id_fkey FOREIGN KEY (vendor_id)
\* REFERENCES vendors(id), checked for a row written to products.
ProductsVendorIdFkey(vendorRows, vendor_id) ==
    \E v \in vendorRows : v.id = vendor_id.n

\* The columns of products a request body fills.
ProductColumns == RequiredColumns \cup {"category"}

\* The parameters node-postgres sends for a product body.
ProductParams(body) == [f \in ProductColumns |-> SqlParam(body[f])]

\* The row a statement writes for parameters p: each column holds the value
\* sent for it.
ProductRow(id, p) ==
    [id |-> id, vendor_id |-> p.vendor_id, name |-> p.name,
     category |-> p.category, quantity |-> p.quantity, price |-> p.price,
     contains |-> p.contains, box |-> p.box]

\* INSERT INTO products (vendor_id, name, category, quantity, price, contains,
\* box) VALUES ($1..$7).  The id is drawn before the constraints are checked.
InsertProduct(rows, seq, vendorRows, p) ==
    LET id == seq + 1 IN
    IF ProductsNotNull(p) /\ ProductsVendorIdFkey(vendorRows, p.vendor_id)
    THEN [ok |-> TRUE, seq |-> id, rows |-> rows \cup {ProductRow(id, p)}]
    ELSE [ok |-> FALSE, seq |-> id, rows |-> rows]

\* An update that fails when the WHERE clause selects no row.
UpdateProductMustHit(rows, vendorRows, p, id) ==
    LET hit == {r \in rows : r.id = id} IN
    IF hit # {} /\ ProductsNotNull(p)
        /\ ProductsVendorIdFkey(vendorRows, p.vendor_id)
    THEN [ok |-> TRUE, rows |-> (rows \ hit) \cup {ProductRow(id, p)}]
    ELSE [ok |-> FALSE, rows |-> rows]

\* UPDATE products SET vendor_id=$1, ..., box=$7 WHERE id=$8.  The constraints
\* are checked for the rows the WHERE clause selects, and only for them.
UpdateProduct(rows, vendorRows, p, id) ==
    LET hit == {r \in rows : r.id = id} IN
    IF hit = {} THEN [ok |-> TRUE, rows |-> rows]
    ELSE IF ProductsNotNull(p) /\ ProductsVendorIdFkey(vendorRows, p.vendor_id)
    THEN [ok |-> TRUE, rows |-> (rows \ hit) \cup {ProductRow(id, p)}]
    ELSE [ok |-> FALSE, rows |-> rows]

\* DELETE FROM products WHERE id=$1
DeleteProductRows(rows, id) == {r \in rows : r.id # id}

\* A foreign key that does not cascade.
NoCascadeVendorDelete(rows, vendorId) == rows

\* ON DELETE CASCADE of products_vendor_id_fkey: the products a deleted vendor
\* row takes with it.
CascadeVendorDelete(rows, vendorId) ==
    {r \in rows : r.vendor_id.n # vendorId}

\* SELECT p.*, v.name AS vendor_name FROM products p JOIN vendors v
\* ON p.vendor_id = v.id
SelectProductsJoinVendors(rows, vendorRows) ==
    {[product |-> r, vendor_name |-> v.name] :
        <<r, v>> \in {x \in rows \X vendorRows : x[1].vendor_id.n = x[2].id}}

\* A field check that rejects absent fields only.
MissingProductFieldsAbsentOnly(body) ==
    \E f \in RequiredColumns : body[f] = Undef

\* if (!vendor_id || !name || !quantity || !price || !contains || !box)
MissingProductFields(body) == \E f \in RequiredColumns : ~Truthy(body[f])

\* GET /api/products
GetProducts ==
    /\ last' = [Reply(Request("GET /api/products", Undef, Undef, Undef), 200, "")
                   EXCEPT !.rows = SelectProductsJoinVendors(products, vendors),
                          !.ran = TRUE]
    /\ UNCHANGED <<users, users_id_seq, vendors, vendors_id_seq, products,
                   products_id_seq, inflight, issued, now>>

\* POST /api/products
PostProduct(header, body) ==
    LET req == Guarded(Request("POST /api/products", header, body, Undef),
                       Authenticate(header, now))
    IN
    /\ IF ~req.ran
       THEN /\ last' = req
            /\ UNCHANGED <<products, products_id_seq>>
       ELSE IF MissingProductFields(body)
       THEN /\ last' = Reply(req, 400, "Missing product fields")
            /\ UNCHANGED <<products, products_id_seq>>
       ELSE /\ products_id_seq < MaxProductSeq
            /\ LET q == InsertProduct(products, products_id_seq, vendors,
                                      ProductParams(body))
               IN /\ products' = q.rows
                  /\ products_id_seq' = q.seq
                  /\ last' = IF q.ok THEN Reply(req, 200, "Product added")
                             ELSE Reply(req, 500, "Error adding product")
    /\ UNCHANGED <<users, users_id_seq, vendors, vendors_id_seq, inflight,
                   issued, now>>

\* PUT /api/products/:id
PutProduct(header, id, body) ==
    LET req == Guarded(Request("PUT /api/products/:id", header, body, Num(id)),
                       Authenticate(header, now))
    IN
    /\ IF ~req.ran
       THEN /\ last' = req
            /\ UNCHANGED products
       ELSE LET q == UpdateProduct(products, vendors, ProductParams(body), id)
            IN /\ products' = q.rows
               /\ last' = IF q.ok THEN Reply(req, 200, "Product updated")
                          ELSE Reply(req, 500, "Error updating product")
    /\ UNCHANGED <<users, users_id_seq, vendors, vendors_id_seq,
                   products_id_seq, inflight, issued, now>>

\* DELETE /api/products/:id
DeleteProduct(header, id) ==
    LET req == Guarded(Request("DELETE /api/products/:id", header, Undef, Num(id)),
                       Authenticate(header, now))
    IN
    /\ IF ~req.ran
       THEN /\ last' = req
            /\ UNCHANGED products
       ELSE /\ products' = DeleteProductRows(products, id)
            /\ last' = Reply(req, 200, "Product deleted")
    /\ UNCHANGED <<users, users_id_seq, vendors, vendors_id_seq,
                   products_id_seq, inflight, issued, now>>

\* DELETE FROM vendors WHERE id = ..., run against the store (no route of
\* index.js deletes a vendor): the row goes, and the foreign key's cascade
\* takes its products in the same statement.
DeleteVendor(id) ==
    /\ \E v \in vendors : v.id = id
    /\ vendors' = {v \in vendors : v.id # id}
    /\ products' = CascadeVendorDelete(products, id)
    /\ last' = [Request("DELETE FROM vendors", Undef, Undef, Num(id))
                   EXCEPT !.rows = products \ CascadeVendorDelete(products, id)]
    /\ UNCHANGED <<users, users_id_seq, vendors_id_seq, products_id_seq,
                   inflight, issued, now>>

\* Time passes.
Tick ==
    /\ now < MaxTime
    /\ now' = now + 1
    /\ last' = Request("tick", Undef, Undef, Undef)
    /\ UNCHANGED <<users, users_id_seq, vendors, vendors_id_seq, products,
                   products_id_seq, inflight, issued>>

----------------------------------------------------------------------------
\* The state after the dump is loaded and the server listens.

Init ==
    /\ users = SeedUsers
    /\ users_id_seq = 1
    /\ vendors = {}
    /\ vendors_id_seq = 0
    /\ products = {}
    /\ products_id_seq = 0
    /\ inflight = [c \in Clients |-> Idle]
    /\ issued = {}
    /\ now = 0
    /\ last = Request("listen", Undef, Undef, Undef)

\* Request bodies of the account routes.
Usernames == {Str("admin"), Str("alice")}
Passwords == {Undef, Str(""), Str(AdminPassword), Str("pw1")}
Credentials ==
    {[username |-> u, password |-> p] : u \in Usernames, p \in Passwords}
    \cup {[username |-> u, password |-> Str("pw1")] : u \in {Undef, Str("")}}

NextAccounts ==
    \/ \E c \in Clients, body \in Credentials, salt \in Salts :
           RegisterStart(c, body, salt)
    \/ \E c \in Clients : RegisterInsert(c)
    \/ \E body \in Credentials : Login(body)

SpecAccounts == Init /\ [][NextAccounts]_vars

----------------------------------------------------------------------------
\* The inventory routes, called by a client that has logged in.

Bearer(token) == Hdr(<<Str("Bearer"), token>>)

AdminCredentials == [username |-> Str("admin"), password |-> Str(AdminPassword)]

\* {vendor_id:1, name:"Widget", quantity:5, price:9.99, contains:10, box:1}
Widget ==
    [vendor_id |-> Num(1), name |-> Str("Widget"), category |-> Undef,
     quantity |-> Num(5), price |-> Num(999), contains |-> Num(10),
     box |-> Num(1)]
Gadget ==
    [vendor_id |-> Num(2), name |-> Str("Gadget"), category |-> Str("Tools"),
     quantity |-> Num(7), price |-> Num(250), contains |-> Num(12),
     box |-> Num(2)]

\* The falsy values a field of a body can carry.
Falsy(f) == IF f = "name" THEN {Undef, Str("")} ELSE {Undef, Num(0)}

\* A body with no field at all.
NoFields == [f \in DOMAIN Widget |-> Undef]

PostBodies ==
    {Widget, Gadget, [Widget EXCEPT !.quantity = Num(-1)]}
    \cup {[Widget EXCEPT ![f] = v] : <<f, v>> \in
             {x \in RequiredColumns \X {Undef, Str(""), Num(0)} :
                 x[2] \in Falsy(x[1])}}
PutBodies ==
    {Widget, Gadget, [Widget EXCEPT !.name = Undef],
     [Gadget EXCEPT !.quantity = Num(0)], NoFields}
VendorBodies == {[name |-> Str("Acme")], [name |-> Str("")], [name |-> Undef]}

VendorIds == 1 .. MaxVendorSeq
ProductIds == 1 .. MaxProductSeq

\* A token nobody was issued: the admin's identity signed with another key.
Forged == Jws([id |-> 1, username |-> "admin", iat |-> 0, exp |-> {}],
              "not the secret")

\* The Authorization headers a client holding `tokens` sends: none, an empty
\* one, a scheme alone, a string that is no token, a forged token, and each
\* token it holds after Bearer, after Basic, alone, and after two spaces.
Headers(tokens) ==
    {Undef, Hdr(<<Str("")>>), Hdr(<<Str("Bearer")>>),
     Hdr(<<Str("Bearer"), Str("garbage")>>), Bearer(Forged)}
    \cup {Bearer(t) : t \in tokens}
    \cup {Hdr(<<Str("Basic"), t>>) : t \in tokens}
    \cup {Hdr(<<t>>) : t \in tokens}
    \cup {Hdr(<<Str("Bearer"), Str(""), t>>) : t \in tokens}

\* The inventory routes over every body, called with a token a login issued.
NextInventory ==
    \/ Login(AdminCredentials)
    \/ GetVendors
    \/ \E t \in issued, body \in VendorBodies : PostVendor(Bearer(t), body)
    \/ \E id \in VendorIds : DeleteVendor(id)
    \/ GetProducts
    \/ \E t \in issued, body \in PostBodies : PostProduct(Bearer(t), body)
    \/ \E t \in issued, id \in ProductIds, body \in PutBodies :
           PutProduct(Bearer(t), id, body)
    \/ \E t \in issued, id \in ProductIds : DeleteProduct(Bearer(t), id)

SpecInventory == Init /\ [][NextInventory]_vars

\* The protected routes over every Authorization header, with a body that
\* passes the field check, one that fails it, and an empty one.
GateBodies == {Widget, [Widget EXCEPT !.quantity = Num(0)], NoFields}

NextGate ==
    \/ Login(AdminCredentials)
    \/ \E h \in Headers(issued), body \in VendorBodies : PostVendor(h, body)
    \/ \E h \in Headers(issued), body \in GateBodies : PostProduct(h, body)
    \/ \E h \in Headers(issued), id \in ProductIds, body \in GateBodies :
           PutProduct(h, id, body)
    \/ \E h \in Headers(issued), id \in ProductIds : DeleteProduct(h, id)

SpecGate == Init /\ [][NextGate]_vars

\* Every operation, with the bodies of the end-to-end scenario, as time passes.
Alice == [username |-> Str("alice"), password |-> Str("pw1")]

\* Work done so far: sequence values drawn, tokens issued, clock ticks.
Work ==
    (users_id_seq - 1) + vendors_id_seq + products_id_seq
    + Cardinality(issued) + now

WithinWork == Work <= MaxWork

Next ==
    \/ /\ \E c \in Clients, salt \in Salts : RegisterStart(c, Alice, salt)
       /\ WithinWork'
    \/ /\ \E c \in Clients : RegisterInsert(c)
       /\ WithinWork'
    \/ /\ \E body \in {AdminCredentials, Alice} : Login(body)
       /\ WithinWork'
    \/ /\ Tick
       /\ WithinWork'
    \/ GetVendors
    \/ /\ \E t \in issued : PostVendor(Bearer(t), [name |-> Str("Acme")])
       /\ WithinWork'
    \/ \E id \in VendorIds : DeleteVendor(id)
    \/ GetProducts
    \/ /\ \E t \in issued : PostProduct(Bearer(t), Widget)
       /\ WithinWork'
    \/ \E t \in issued, id \in ProductIds : PutProduct(Bearer(t), id, Widget)
    \/ \E t \in issued, id \in ProductIds : DeleteProduct(Bearer(t), id)

Spec == Init /\ [][Next]_vars

----------------------------------------------------------------------------
\* The token verifier (checked under SpecGate).

\* C1: a request to a protected route that carries no Authorization header is
\* answered 401 "No token provided", the route's handler does not run, and
\* users, vendors and products stay as they were, whatever the body holds.
C1_NoTokenProvided ==
    [][(last'.op \in ProtectedOps /\ last'.header = Undef)
          => /\ last'.status = 401
             /\ last'.msg = "No token provided"
             /\ ~last'.ran
             /\ UNCHANGED tables]_vars

\* A product is stored, and a POST /api/products without a header, whose
\* body would fail the field check, has just been answered 401.
C1_Witness ==
    /\ last.op = "POST /api/products"
    /\ last.header = Undef
    /\ last.body = [Widget EXCEPT !.quantity = Num(0)]
    /\ last.status = 401
    /\ products # {}

\* `Bearer <token>` with a token the server secret signed.
SignedBearer(header) ==
    /\ header.k = "hdr"
    /\ Len(header.segs) = 2
    /\ header.segs[1] = Str("Bearer")
    /\ header.segs[2].k = "jws"
    /\ header.segs[2].key = JWT_SECRET

\* C2: a protected route called with an Authorization header that is present
\* and is not `Bearer <token>` with a token the server secret signed is
\* answered 401 "Invalid token"; no identity is attached to the request and
\* the store is unchanged.
C2_InvalidToken ==
    [][(last'.op \in ProtectedOps /\ last'.header # Undef
            /\ ~SignedBearer(last'.header))
          => /\ last'.status = 401
             /\ last'.msg = "Invalid token"
             /\ last'.user = Undef
             /\ UNCHANGED store]_vars

----------------------------------------------------------------------------
\* Registration and login (checked under SpecAccounts).

\* A non-empty string.
NonEmpty(v) == v.k = "str" /\ v.s # ""

\* h is what bcrypt.hash gives for the password p.
HashOf(h, p) ==
    p.k = "str" /\ \E salt \in Salts \cup {"cVxu"} : h = BcryptHash(p.s, salt)

\* The step is the answer to a registration whose fields are non-empty.
RegistrationAnswered ==
    /\ last'.op = "register"
    /\ last'.status # 0
    /\ NonEmpty(last'.body.username)
    /\ NonEmpty(last'.body.password)

\* The registration is answered 200 and has inserted one row, under an id no
\* row had, with its username and the hash of its password.
RegistrationInserted ==
    /\ last'.status = 200
    /\ \E r \in users' \ users :
          /\ users' = users \cup {r}
          /\ r.username = last'.body.username.s
          /\ HashOf(r.password, last'.body.password)
          /\ \A o \in users : o.id # r.id

\* A login with the username and the password of a row is answered 200 with
\* a token that carries that row's id and username.
LoginAsRegistered ==
    last'.op = "login" =>
        \A r \in users :
            (/\ last'.body.username = Str(r.username)
             /\ HashOf(r.password, last'.body.password))
            => /\ last'.status = 200
               /\ last'.token.k = "jws"
               /\ JwtVerifies(last'.token, JWT_SECRET, now')
               /\ last'.token.payload.id = r.id
               /\ last'.token.payload.username = r.username

\* C3 as stated: every registration with a non-empty username and password
\* is answered 200 and inserts the user's row, and a login with the same
\* credentials is then answered 200 with a token carrying that row's id and
\* username, after any interleaving of other registrations and logins.
C3_AnyRegistrationSucceeds ==
    [][/\ RegistrationAnswered => RegistrationInserted
       /\ LoginAsRegistered
       /\ users \subseteq users']_vars

\* C3, amended: a registration with a non-empty username that no row has when
\* its INSERT runs, and a non-empty password, is answered 200 and inserts the
\* user's row; rows are never changed or removed; a login with a row's
\* credentials is answered 200 with a token carrying that row's id and
\* username.
C3_RegisterThenLogin ==
    [][/\ (RegistrationAnswered
            /\ \A r \in users : r.username # last'.body.username.s)
          => RegistrationInserted
       /\ LoginAsRegistered
       /\ users \subseteq users']_vars

\* alice's registration drew id 3 (another registration drew 2), and her
\* login has just been answered with a token for id 3.
C3_Witness ==
    /\ last.op = "login"
    /\ last.status = 200
    /\ last.body = [username |-> Str("alice"), password |-> Str("pw1")]
    /\ last.token.payload.id = 3
    /\ \E r \in users : r.id = 3 /\ r.username = "alice"

\* No two rows of users share a username.
UniqueUsernames ==
    \A r1, r2 \in users : r1.username = r2.username => r1 = r2

\* C4: a registration whose username a row already has when its INSERT runs
\* is answered 500 "Registration failed" and leaves users as it was; one
\* whose username is free is answered 200 and adds one row, so of two
\* registrations of a free username in flight together exactly the first to
\* reach the store succeeds; no two rows ever share a username.
C4_UsernameUnique ==
    /\ []UniqueUsernames
    /\ [][(last'.op = "register" /\ last'.status \notin {0, 400})
            => IF \E r \in users : r.username = last'.body.username.s
               THEN /\ last'.status = 500
                    /\ last'.msg = "Registration failed"
                    /\ users' = users
               ELSE /\ last'.status = 200
                    /\ Cardinality(users') = Cardinality(users) + 1]_vars

\* A registration has just been answered 500, and the row holding its
\* username was inserted after this registration began: the two were in
\* flight together.
C4_Witness ==
    /\ last.op = "register"
    /\ last.status = 500
    /\ \E r \in users :
          /\ r.username = last.body.username.s
          /\ r.id > last.began

----------------------------------------------------------------------------
\* Vendors and products (checked under SpecInventory).

\* Absent, zero or the empty string.
IsFalsy(v) == v \in {Undef, Num(0), Str("")}

\* The body names a vendor that has a row.
NamesVendor(body, vendorRows) ==
    body.vendor_id.k = "num" /\ \E v \in vendorRows : v.id = body.vendor_id.n

\* Every product row's vendor_id is the id of a vendor row.
ProductsHaveVendors ==
    \A p \in products : \E v \in vendors : v.id = p.vendor_id.n

\* C6: with the token accepted, a POST /api/products whose required fields
\* are all given and whose vendor_id names no vendor row is answered 500
\* "Error adding product" and inserts nothing; every product row's vendor_id
\* is always the id of a vendor row; GET /api/products lists every product row.
C6_VendorForeignKey ==
    /\ []ProductsHaveVendors
    /\ [](last.op = "GET /api/products"
            => {x.product : x \in last.rows} = products)
    /\ [][(last'.op = "POST /api/products" /\ last'.ran
             /\ \A f \in RequiredColumns : ~IsFalsy(last'.body[f])
             /\ ~NamesVendor(last'.body, vendors))
            => /\ last'.status = 500
               /\ last'.msg = "Error adding product"
               /\ products' = products]_vars

\* A product is stored, and a POST of Gadget, whose vendor 2 has no row, has
\* just been answered 500.
C6_Witness ==
    /\ last.op = "POST /api/products"
    /\ last.body = Gadget
    /\ last.status = 500
    /\ products # {}
    /\ \A v \in vendors : v.id # 2

\* C7: deleting a vendor row removes, in the same step, exactly the products
\* whose vendor_id is its id; the id is never given to a later vendor; and
\* GET /api/products lists only stored products whose vendor has a row.
C7_VendorDeleteCascades ==
    /\ [][last'.op = "DELETE FROM vendors"
            => /\ vendors' = {v \in vendors : v.id # last'.id.n}
               /\ products' = {p \in products : p.vendor_id.n # last'.id.n}]_vars
    /\ [][\A v \in vendors' \ vendors : v.id > vendors_id_seq]_vars
    /\ [](last.op = "GET /api/products"
            => \A x \in last.rows :
                  /\ x.product \in products
                  /\ \E v \in vendors : /\ v.id = x.product.vendor_id.n
                                        /\ v.name = x.vendor_name)

\* A vendor has just been deleted; the cascade took a product, and a product
\* of another vendor is still stored.
C7_Witness ==
    /\ last.op = "DELETE FROM vendors"
    /\ last.rows # {}
    /\ products # {}

\* C8: with the token accepted, POST /api/products is answered 400 "Missing
\* product fields" and inserts nothing when any of vendor_id, name, quantity,
\* price, contains, box is absent, zero or empty (category may be absent);
\* when all six are given and vendor_id names a vendor row it is answered 200
\* and inserts exactly one row, under a fresh id, holding the body's values.
C8_ProductFieldCheck ==
    [][(last'.op = "POST /api/products" /\ last'.ran)
         => IF \E f \in RequiredColumns : IsFalsy(last'.body[f])
            THEN /\ last'.status = 400
                 /\ last'.msg = "Missing product fields"
                 /\ products' = products
            ELSE NamesVendor(last'.body, vendors)
                 => /\ last'.status = 200
                    /\ \E r \in products' \ products :
                          /\ products' = products \cup {r}
                          /\ \A o \in products : o.id # r.id
                          /\ \A f \in RequiredColumns : r[f] = last'.body[f]
                          /\ r.category = IF last'.body.category = Undef
                                          THEN Null ELSE last'.body.category
       ]_vars

\* Vendor 1 has a row and a POST of Widget with box 0 has just been answered
\* 400.
C8_Witness ==
    /\ last.op = "POST /api/products"
    /\ last.body = [Widget EXCEPT !.box = Num(0)]
    /\ last.ran
    /\ last.status = 400
    /\ \E v \in vendors : v.id = 1

\* The row PUT writes under id for a body: each column holds what was sent.
Replaced(id, body) ==
    [f \in ProductColumns \cup {"id"} |->
        IF f = "id" THEN id
        ELSE IF body[f] = Undef THEN Null ELSE body[f]]

\* The step is an accepted PUT or DELETE of /api/products/:id.
ProductWriteById ==
    /\ last'.op \in {"PUT /api/products/:id", "DELETE /api/products/:id"}
    /\ last'.ran

\* The step's id matches no product row: 200, and no table changes.
SilentOnNoRow ==
    (\A r \in products : r.id # last'.id.n)
    => (last'.status = 200 /\ UNCHANGED tables)

\* The step is a DELETE of a stored product: exactly that row goes.
DeleteRemovesRow ==
    (last'.op = "DELETE /api/products/:id"
       /\ \E r \in products : r.id = last'.id.n)
    => /\ last'.status = 200
       /\ products' = {r \in products : r.id # last'.id.n}
       /\ UNCHANGED <<users, vendors>>

\* The step is a PUT that replaced the row under its id and no other.
PutReplacedRow ==
    /\ last'.status = 200
    /\ products' = {r \in products : r.id # last'.id.n}
                      \cup {Replaced(last'.id.n, last'.body)}
    /\ UNCHANGED <<users, vendors>>

\* C9 as stated: with the token accepted, PUT and DELETE of an id that
\* matches no product row are answered 200 and change no table; DELETE of a
\* stored id removes exactly that row; PUT of a stored id replaces the seven
\* fields of exactly that row.
C9_PutAlwaysReplaces ==
    [][ProductWriteById
         => /\ SilentOnNoRow
            /\ DeleteRemovesRow
            /\ (last'.op = "PUT /api/products/:id"
                  /\ \E r \in products : r.id = last'.id.n)
               => PutReplacedRow]_vars

\* C9, amended: as stated, except that PUT of a stored id replaces the row
\* only when the body gives vendor_id, name, quantity, price, contains and
\* box and its vendor_id names a vendor row; otherwise it is answered 500
\* "Error updating product" and no table changes.
C9_WriteById ==
    [][ProductWriteById
         => /\ SilentOnNoRow
            /\ DeleteRemovesRow
            /\ (last'.op = "PUT /api/products/:id"
                  /\ \E r \in products : r.id = last'.id.n)
               => IF /\ \A f \in RequiredColumns : last'.body[f] # Undef
                     /\ NamesVendor(last'.body, vendors)
                  THEN PutReplacedRow
                  ELSE /\ last'.status = 500
                       /\ last'.msg = "Error updating product"
                       /\ UNCHANGED tables]_vars

\* A product is stored and a PUT with an empty body to an id that has no row
\* has just been answered 200.
C9_Witness ==
    /\ last.op = "PUT /api/products/:id"
    /\ last.body = NoFields
    /\ last.status = 200
    /\ products # {}
    /\ \A r \in products : r.id # last.id.n

----------------------------------------------------------------------------
\* Token lifetime (checked under Spec).

\* C10: in every state, each token a login has issued is accepted by the
\* verifier at the current time and gives back its own claims, which name a
\* row of users; and a protected request that carried it was let through to
\* its handler.
C10_TokensStayValid ==
    /\ \A t \in issued :
          /\ Authenticate(Bearer(t), now).next
          /\ Authenticate(Bearer(t), now).user = t.payload
          /\ \E u \in users : /\ u.id = t.payload.id
                              /\ u.username = t.payload.username
    /\ (last.op \in ProtectedOps /\ \E t \in issued : last.header = Bearer(t))
          => /\ last.ran
             /\ last.status # 401
             /\ last.user = last.header.segs[2].payload

\* The admin's token was issued at time 0; since then the clock has advanced
\* and alice was registered, and a POST /api/products carrying the token has
\* just been answered 200.
C10_Witness ==
    /\ last.op = "POST /api/products"
    /\ last.status = 200
    /\ last.user.id = 1
    /\ last.user.iat < now
    /\ \E u \in users : u.username = "alice"

====
